---- MODULE Spec2Model ----
(***************************************************************************)
(* http_limiter: rate-limiting HTTP middleware (package http_limiter).     *)
(* The model covers construction (New, NewWithConfig), the per-request     *)
(* handler the middleware returns, and GetIP with the standard-library     *)
(* string and address functions it calls.  Strings that the code cuts,     *)
(* trims, parses or concatenates are sequences of one-character strings;   *)
(* strings it only passes along (message, error text) are plain strings.   *)
(***************************************************************************)
EXTENDS Integers, Sequences, FiniteSets, TLC

VARIABLES DefaultConfig, callerConfig, phase, config, limit, reqs, probe, ip

vars == <<DefaultConfig, callerConfig, phase, config, limit, reqs, probe, ip>>

Nil == "nil"

(***************************************************************************)
(* strings, strconv                                                        *)
(***************************************************************************)
Digits == <<"0", "1", "2", "3", "4", "5", "6", "7", "8", "9">>

HexLower == Digits \o <<"a", "b", "c", "d", "e", "f">>

HexUpper == Digits \o <<"A", "B", "C", "D", "E", "F">>

IsDigit(c) == \E k \in 1..10 : Digits[k] = c

DigitVal(c) == (CHOOSE k \in 1..10 : Digits[k] = c) - 1

IsHex(c) == \E k \in 1..16 : HexLower[k] = c \/ HexUpper[k] = c

HexVal(c) == (CHOOSE k \in 1..16 : HexLower[k] = c \/ HexUpper[k] = c) - 1

\* unicode.IsSpace on the characters of the model's alphabet
IsSpace(c) == c = " " \/ c = "\t"

Drop(s, n) == SubSeq(s, n + 1, Len(s))

Take(s, n) == SubSeq(s, 1, n)

\* strings.IndexByte, 0-based, -1 when absent
IndexByte(s, c) ==
    IF \E k \in 1..Len(s) : s[k] = c
    THEN (CHOOSE k \in 1..Len(s) : s[k] = c /\ \A j \in 1..(k - 1) : s[j] # c) - 1
    ELSE -1

\* net's last(), 0-based, -1 when absent
LastIndexByte(s, c) ==
    IF \E k \in 1..Len(s) : s[k] = c
    THEN (CHOOSE k \in 1..Len(s) : s[k] = c /\ \A j \in (k + 1)..Len(s) : s[j] # c) - 1
    ELSE -1

RECURSIVE TrimLeft(_)
TrimLeft(s) == IF s # <<>> /\ IsSpace(Head(s)) THEN TrimLeft(Tail(s)) ELSE s

RECURSIVE TrimRight(_)
TrimRight(s) ==
    IF s # <<>> /\ IsSpace(s[Len(s)]) THEN TrimRight(Take(s, Len(s) - 1)) ELSE s

TrimSpace(s) == TrimRight(TrimLeft(s))

\* strings.SplitN(s, ",", 2)[0]
SplitFirst(s, sep) == IF IndexByte(s, sep) < 0 THEN s ELSE Take(s, IndexByte(s, sep))

RECURSIVE uitoa(_)
uitoa(n) == IF n < 10 THEN <<Digits[n + 1]>> ELSE uitoa(n \div 10) \o <<Digits[(n % 10) + 1]>>

\* strconv.FormatInt(n, 10) and strconv.Itoa(n)
FormatInt(n) == IF n < 0 THEN <<"-">> \o uitoa(-n) ELSE uitoa(n)

RECURSIVE appendHex(_)
appendHex(n) ==
    IF n < 16 THEN <<HexLower[n + 1]>> ELSE appendHex(n \div 16) \o <<HexLower[(n % 16) + 1]>>

(***************************************************************************)
(* net: ParseIP, IP.String, SplitHostPort                                  *)
(***************************************************************************)
\* a nil net.IP: the empty byte slice
NoIP == <<>>

IPv4len == 4

IPv6len == 16

big == 16777215

\* dtoi: leading decimal number of s: value, characters consumed, ok
RECURSIVE dtoiFrom(_, _, _)
dtoiFrom(s, i, n) ==
    IF i < Len(s) /\ IsDigit(s[i + 1])
    THEN LET m == n * 10 + DigitVal(s[i + 1])
         IN  IF m >= big THEN [n |-> big, c |-> i, ok |-> FALSE]
             ELSE dtoiFrom(s, i + 1, m)
    ELSE IF i = 0 THEN [n |-> 0, c |-> 0, ok |-> FALSE]
         ELSE [n |-> n, c |-> i, ok |-> TRUE]

dtoi(s) == dtoiFrom(s, 0, 0)

\* xtoi: leading hexadecimal number of s
RECURSIVE xtoiFrom(_, _, _)
xtoiFrom(s, i, n) ==
    IF i < Len(s) /\ IsHex(s[i + 1])
    THEN LET m == n * 16 + HexVal(s[i + 1])
         IN  IF m >= big THEN [n |-> 0, c |-> i, ok |-> FALSE]
             ELSE xtoiFrom(s, i + 1, m)
    ELSE IF i = 0 THEN [n |-> 0, c |-> i, ok |-> FALSE]
         ELSE [n |-> n, c |-> i, ok |-> TRUE]

xtoi(s) == xtoiFrom(s, 0, 0)

\* the four bytes of a dotted quad, or NoIP
RECURSIVE parseIPv4From(_, _, _)
parseIPv4From(s, i, p) ==
    IF i = IPv4len THEN (IF s = <<>> THEN p ELSE NoIP)
    ELSE IF s = <<>> THEN NoIP
    ELSE IF i > 0 /\ Head(s) # "." THEN NoIP
    ELSE LET t == IF i > 0 THEN Tail(s) ELSE s
             d == dtoi(t)
         IN  IF ~d.ok \/ d.n > 255 THEN NoIP
             ELSE IF d.c > 1 /\ t[1] = "0" THEN NoIP
             ELSE parseIPv4From(Drop(t, d.c), i + 1, Append(p, d.n))

v4InV6Prefix == <<0, 0, 0, 0, 0, 0, 0, 0, 0, 0, 255, 255>>

\* net.IPv4(a, b, c, d): the 16-byte form
IPv4(p) == v4InV6Prefix \o p

parseIPv4(s) == LET p == parseIPv4From(s, 0, <<>>) IN IF p = NoIP THEN NoIP ELSE IPv4(p)

Zeros(n) == [k \in 1..n |-> 0]

\* the loop of parseIPv6: p holds the bytes parsed so far (i = Len(p))
RECURSIVE parseIPv6Loop(_, _, _)
parseIPv6Loop(s, p, ellipsis) ==
    LET i == Len(p)
        \* after the loop: the whole string used, the ellipsis expanded
        finish(rest, q, e) ==
            IF rest # <<>> THEN NoIP
            ELSE IF Len(q) < IPv6len
                 THEN IF e < 0 THEN NoIP
                      ELSE Take(q, e) \o Zeros(IPv6len - Len(q)) \o Drop(q, e)
                 ELSE IF e >= 0 THEN NoIP ELSE q
    IN
    IF i >= IPv6len THEN finish(s, p, ellipsis)
    ELSE
      LET x == xtoi(s) IN
      IF ~x.ok \/ x.n > 65535 THEN NoIP
      ELSE IF x.c < Len(s) /\ s[x.c + 1] = "."
      THEN IF ellipsis < 0 /\ i # IPv6len - IPv4len THEN NoIP
           ELSE IF i + IPv4len > IPv6len THEN NoIP
           ELSE LET ip4 == parseIPv4From(s, 0, <<>>)
                IN  IF ip4 = NoIP THEN NoIP ELSE finish(<<>>, p \o ip4, ellipsis)
      ELSE
        LET q == p \o <<x.n \div 256, x.n % 256>>
            t == Drop(s, x.c)
        IN  IF t = <<>> THEN finish(t, q, ellipsis)
            ELSE IF Head(t) # ":" \/ Len(t) = 1 THEN NoIP
            ELSE LET u == Tail(t) IN
                 IF Head(u) = ":"
                 THEN IF ellipsis >= 0 THEN NoIP
                      ELSE IF Tail(u) = <<>> THEN finish(<<>>, q, Len(q))
                      ELSE parseIPv6Loop(Tail(u), q, Len(q))
                 ELSE parseIPv6Loop(u, q, ellipsis)

parseIPv6(s) ==
    IF Len(s) >= 2 /\ s[1] = ":" /\ s[2] = ":"
    THEN IF Len(s) = 2 THEN Zeros(IPv6len) ELSE parseIPv6Loop(Drop(s, 2), <<>>, 0)
    ELSE parseIPv6Loop(s, <<>>, -1)

\* net.ParseIP: the first '.' or ':' of s decides the family
RECURSIVE ParseIPFrom(_, _)
ParseIPFrom(s, i) ==
    IF i > Len(s) THEN NoIP
    ELSE IF s[i] = "." THEN parseIPv4(s)
    ELSE IF s[i] = ":" THEN parseIPv6(s)
    ELSE ParseIPFrom(s, i + 1)

ParseIP(s) == ParseIPFrom(s, 1)

\* IP.To4: the four bytes of an IPv4 or IPv4-mapped address, else NoIP
To4(p) == IF Take(p, 12) = v4InV6Prefix THEN Drop(p, 12) ELSE NoIP

\* the 16-bit group that starts at byte i (0-based)
Group(p, i) == p[i + 1] * 256 + p[i + 2]

\* end of the run of zero groups that starts at byte i
RECURSIVE ZeroRunEnd(_, _)
ZeroRunEnd(p, j) ==
    IF j < IPv6len /\ p[j + 1] = 0 /\ p[j + 2] = 0 THEN ZeroRunEnd(p, j + 2) ELSE j

\* IP.String's search for the longest run of zero groups: <<e0, e1>>
RECURSIVE LongestZeroRun(_, _, _)
LongestZeroRun(p, i, e) ==
    IF i >= IPv6len THEN e
    ELSE LET j == ZeroRunEnd(p, i)
         IN  IF j > i /\ j - i > e[2] - e[1]
             THEN LongestZeroRun(p, j + 2, <<i, j>>)
             ELSE LongestZeroRun(p, i + 2, e)

RECURSIVE FormatIPv6From(_, _, _)
FormatIPv6From(p, i, e) ==
    IF i >= IPv6len THEN <<>>
    ELSE IF i = e[1]
         THEN <<":", ":">> \o
              (IF e[2] >= IPv6len THEN <<>>
               ELSE appendHex(Group(p, e[2])) \o FormatIPv6From(p, e[2] + 2, e))
         ELSE (IF i > 0 THEN <<":">> ELSE <<>>) \o appendHex(Group(p, i))
              \o FormatIPv6From(p, i + 2, e)

NilString == <<"<", "n", "i", "l", ">">>

\* IP.String
IPString(p) ==
    IF p = NoIP THEN NilString
    ELSE IF To4(p) # NoIP
         THEN LET q == To4(p)
              IN  uitoa(q[1]) \o <<".">> \o uitoa(q[2]) \o <<".">> \o uitoa(q[3])
                  \o <<".">> \o uitoa(q[4])
         ELSE LET r == LongestZeroRun(p, 0, <<-1, -1>>)
                  e == IF r[2] - r[1] <= 2 THEN <<-1, -1>> ELSE r
              IN  FormatIPv6From(p, 0, e)

\* net.SplitHostPort: [host, err]; the port is not used by the caller
SplitHostPort(hostport) ==
    LET i == LastIndexByte(hostport, ":")
        fail == [host |-> <<>>, err |-> TRUE]
    IN
    IF i < 0 THEN fail
    ELSE IF hostport[1] = "["
    THEN LET end == IndexByte(hostport, "]") IN
         IF end < 0 THEN fail
         ELSE IF end + 1 # i THEN fail
         ELSE IF IndexByte(Drop(hostport, 1), "[") >= 0 THEN fail
         ELSE IF IndexByte(Drop(hostport, end + 1), "]") >= 0 THEN fail
         ELSE [host |-> SubSeq(hostport, 2, end), err |-> FALSE]
    ELSE IF IndexByte(Take(hostport, i), ":") >= 0 THEN fail
         ELSE IF IndexByte(hostport, "[") >= 0 THEN fail
         ELSE IF IndexByte(hostport, "]") >= 0 THEN fail
         ELSE [host |-> Take(hostport, i), err |-> FALSE]

(***************************************************************************)
(* GetIP                                                                   *)
(***************************************************************************)
\* r.Header.Get: a header that is absent reads as the empty string
HeaderGet(r, name) == IF name \in DOMAIN r.Header THEN r.Header[name] ELSE <<>>

\* variant: a source that does not parse gives way to the next one
GetIPFallsThrough(r) ==
    LET xff == ParseIP(TrimSpace(SplitFirst(HeaderGet(r, "X-Forwarded-For"), ",")))
        xri == ParseIP(TrimSpace(HeaderGet(r, "X-Real-IP")))
        remoteAddr == TrimSpace(r.RemoteAddr)
        hp == SplitHostPort(remoteAddr)
    IN  IF xff # NoIP THEN xff
        ELSE IF xri # NoIP THEN xri
        ELSE IF hp.err THEN ParseIP(remoteAddr) ELSE ParseIP(hp.host)

GetIP(r) ==
    LET xff == HeaderGet(r, "X-Forwarded-For") IN
    IF xff # <<>>
    THEN ParseIP(TrimSpace(SplitFirst(xff, ",")))
    ELSE LET xri == TrimSpace(HeaderGet(r, "X-Real-IP")) IN
         IF xri # <<>>
         THEN ParseIP(xri)
         ELSE LET remoteAddr == TrimSpace(r.RemoteAddr)
                  hp == SplitHostPort(remoteAddr)
              IN  IF hp.err THEN ParseIP(remoteAddr) ELSE ParseIP(hp.host)

(***************************************************************************)
(* Config, DefaultConfig                                                   *)
(***************************************************************************)
\* go_limiter's algorithm selectors, as re-exported by the package
SlidingWindowAlgorithm == 0

GCRAAlgorithm == 1

DefaultKeyPrefix == <<"h", "t", "t", "p", "_", "l", "i", "m", "i", "t", "e", "r">>

\* http.StatusTooManyRequests, http.StatusInternalServerError, http.StatusOK
StatusTooManyRequests == 429

StatusInternalServerError == 500

StatusOK == 200

\* durations and instants are counted in ticks, TicksPerSecond of them to a second
TicksPerSecond == 2

\* time.Second, time.Minute
Second == TicksPerSecond

Minute == 60 * Second

\* the zero value of Config: nil functions and pointer, 0, "", false
ZeroConfig ==
    [Skipper |-> Nil, Rediser |-> Nil, Max |-> 0, Burst |-> 0, StatusCode |-> 0,
     Message |-> "", Algorithm |-> 0, Prefix |-> <<>>, SkipOnError |-> FALSE,
     Period |-> 0, Key |-> Nil, Handler |-> Nil, ErrHandler |-> Nil]

\* the value the package variable DefaultConfig is initialised with
DefaultConfigLiteral ==
    [ZeroConfig EXCEPT
        !.Skipper = "DefaultSkipper",
        !.Max = 10,
        !.Burst = 10,
        !.Prefix = DefaultKeyPrefix,
        !.Algorithm = SlidingWindowAlgorithm,
        !.StatusCode = StatusTooManyRequests,
        !.Message = "Too many requests, please try again later.",
        !.Period = Minute,
        !.Key = "DefaultKey"]

\* the zero value of go_limiter.Limit
ZeroLimit == [Period |-> 0, Algorithm |-> 0, Rate |-> 0, Burst |-> 0]

(***************************************************************************)
(* http.ResponseWriter, http.Request                                       *)
(***************************************************************************)
NoHeader == [k \in {} |-> <<>>]

\* a response nothing has been written to: status 0 means no status line yet;
\* sent is the header map as it stood when the status line was written
NewResponse == [header |-> NoHeader, status |-> 0, sent |-> NoHeader, body |-> <<>>]

\* w.Header().Set(name, value)
HeaderSet(w, name, value) ==
    [w EXCEPT !.header = [k \in DOMAIN w.header \cup {name} |->
                             IF k = name THEN value ELSE w.header[k]]]

\* w.WriteHeader(code): the first call fixes the status and the headers sent
WriteHeader(w, code) ==
    IF w.status # 0 THEN w ELSE [w EXCEPT !.status = code, !.sent = w.header]

\* w.Write(data): writes the status line with 200 first when none was written
Write(w, data) ==
    LET w1 == WriteHeader(w, StatusOK) IN [w1 EXCEPT !.body = Append(@, data)]

NoRequest == [Header |-> NoHeader, RemoteAddr |-> <<>>, Path |-> ""]

(***************************************************************************)
(* the functions a Config can hold                                         *)
(***************************************************************************)
\* DefaultSkipper
DefaultSkipper(r) == FALSE

\* a caller's Skipper: lets health checks through
customSkipper(r) == r.Path = "/health"

\* DefaultConfig.Key
DefaultKey(r) == IPString(GetIP(r))

\* a caller's Key: the API key header
customKey(r) == HeaderGet(r, "X-Api-Key")

\* the inner handler (next): writes a body, which sends status 200
next(w, r) == Write(w, "hello world")

\* variant: body before status line, as the Config.Handler doc comment has it
defaultHandlerWriteFirst(c, w, r) == WriteHeader(Write(w, c.Message), c.StatusCode)

\* the Handler NewWithConfig installs; c is the config variable it closes over
defaultHandler(c, w, r) == Write(WriteHeader(w, c.StatusCode), c.Message)

\* a caller's Handler
customHandler(w, r) == Write(WriteHeader(w, 503), "custom reject")

\* variant: body before status line, as the Config.ErrHandler doc comment has it
defaultErrHandlerWriteFirst(err, w, r) ==
    WriteHeader(Write(w, err), StatusInternalServerError)

\* the ErrHandler NewWithConfig installs
defaultErrHandler(err, w, r) == Write(WriteHeader(w, StatusInternalServerError), err)

\* a caller's ErrHandler
customErrHandler(err, w, r) == Write(WriteHeader(w, 502), "custom error")

\* calling the function values held in Config fields
CallSkipper(f, r) == IF f = "DefaultSkipper" THEN DefaultSkipper(r) ELSE customSkipper(r)

CallKey(f, r) == IF f = "DefaultKey" THEN DefaultKey(r) ELSE customKey(r)

CallHandler(f, c, w, r) ==
    IF f = "defaultHandler" THEN defaultHandler(c, w, r) ELSE customHandler(w, r)

CallErrHandler(f, err, w, r) ==
    IF f = "defaultErrHandler" THEN defaultErrHandler(err, w, r)
    ELSE customErrHandler(err, w, r)

(***************************************************************************)
(* bounds and inputs                                                       *)
(***************************************************************************)
\* requests in flight at once in the concurrent specification
NReq == 2

\* RetryAfter and ResetAfter range over 0..MaxDuration ticks
MaxDuration == 1

\* Remaining ranges over 0..MaxRemaining
MaxRemaining == 1

\* time.Now() answers between StartTick and StartTick + MaxElapsed
MaxElapsed == 1

StartTick == 1000 * TicksPerSecond

Nows == StartTick..(StartTick + MaxElapsed)

\* the Config values a caller passes to NewWithConfig: every field either
\* left at its zero value or set
Configs ==
    [Skipper : {Nil, "customSkipper"},
     Rediser : {Nil, "client"},
     Max : {0, 3},
     Burst : {0, 5},
     StatusCode : {0, 503},
     Message : {"", "slow down"},
     Algorithm : {SlidingWindowAlgorithm, GCRAAlgorithm},
     Prefix : {<<>>, <<"a", "p", "i">>},
     SkipOnError : BOOLEAN,
     Period : {0, 10 * Second},
     Key : {Nil, "customKey"},
     Handler : {Nil, "customHandler"},
     ErrHandler : {Nil, "customErrHandler"}]

\* the configuration of examples/main.go
ExampleConfig ==
    [ZeroConfig EXCEPT !.Rediser = "client", !.Max = 3, !.Burst = 3,
                       !.Period = 10 * Second, !.Algorithm = GCRAAlgorithm]

Req(xff, xri, remoteAddr, path, apiKey) ==
    [Header |-> [k \in {n \in {"X-Forwarded-For"} : xff # <<>>}
                       \cup {n \in {"X-Real-IP"} : xri # <<>>}
                       \cup {n \in {"X-Api-Key"} : apiKey # <<>>} |->
                    IF k = "X-Forwarded-For" THEN xff
                    ELSE IF k = "X-Real-IP" THEN xri ELSE apiKey],
     RemoteAddr |-> remoteAddr,
     Path |-> path]

Addr1 == <<"1", "9", "2", ".", "0", ".", "2", ".", "1", ":", "5", "4", "3", "2", "1">>

Fwd1 == <<"2", "0", "3", ".", "0", ".", "1", "1", "3", ".", "5", ",", " ",
          "1", "0", ".", "0", ".", "0", ".", "1">>

Real1 == <<"1", "9", "8", ".", "5", "1", ".", "1", "0", "0", ".", "7">>

\* the requests that arrive
Requests ==
    { Req(<<>>, <<>>, Addr1, "/", <<"k", "1">>),
      Req(Fwd1, <<>>, Addr1, "/health", <<"k", "1">>),
      Req(<<>>, Real1, Addr1, "/", <<"k", "2">>),
      Req(<<>>, <<>>, <<"p", "i", "p", "e">>, "/health", <<>>) }

NoResult == [Allowed |-> FALSE, Remaining |-> 0, RetryAfter |-> 0, ResetAfter |-> 0]

\* what limiter.Allow can return: an error, or a decision
Outcomes ==
    { [err |-> "redis: connection refused", result |-> NoResult] }
    \cup { [err |-> Nil,
            result |-> [Allowed |-> FALSE, Remaining |-> 0, RetryAfter |-> d,
                        ResetAfter |-> d]] : d \in 0..MaxDuration }
    \cup { [err |-> Nil,
            result |-> [Allowed |-> TRUE, Remaining |-> n, RetryAfter |-> 0,
                        ResetAfter |-> d]] : n \in 0..MaxRemaining, d \in 0..MaxDuration }

NoOutcome == [err |-> Nil, result |-> NoResult]

NoCalls == [next |-> 0, Handler |-> 0, ErrHandler |-> 0, Skipper |-> 0, Key |-> 0,
            Allow |-> 0]

\* one request slot: where the handler stands (pc), the request, its response
\* writer, how often each collaborator was called, and what Allow was given
\* and returned
IdleSlot ==
    [pc |-> "idle", r |-> NoRequest, w |-> NewResponse, calls |-> NoCalls,
     allowKey |-> <<>>, allowLimit |-> ZeroLimit, out |-> NoOutcome, errArg |-> Nil,
     now |-> 0]

(***************************************************************************)
(* construction                                                            *)
(***************************************************************************)
\* variant: the Message default is forgotten
ResolveWithoutMessage(c) ==
    [c EXCEPT
        !.Skipper = IF c.Skipper = Nil THEN DefaultConfig.Skipper ELSE @,
        !.Max = IF c.Max = 0 THEN DefaultConfig.Max ELSE @,
        !.Burst = IF c.Burst = 0 THEN DefaultConfig.Burst ELSE @,
        !.StatusCode = IF c.StatusCode = 0 THEN DefaultConfig.StatusCode ELSE @,
        !.Algorithm = IF c.Algorithm = 0 THEN DefaultConfig.Algorithm ELSE @,
        !.Prefix = IF c.Prefix = <<>> THEN DefaultConfig.Prefix ELSE @,
        !.Period = IF c.Period = 0 THEN DefaultConfig.Period ELSE @,
        !.Key = IF c.Key = Nil THEN DefaultConfig.Key ELSE @,
        !.Handler = IF c.Handler = Nil THEN "defaultHandler" ELSE @,
        !.ErrHandler = IF c.ErrHandler = Nil THEN "defaultErrHandler" ELSE @]

\* lines 110-158: every zero-valued field takes its default
Resolve(c) ==
    [c EXCEPT
        !.Skipper = IF c.Skipper = Nil THEN DefaultConfig.Skipper ELSE @,
        !.Max = IF c.Max = 0 THEN DefaultConfig.Max ELSE @,
        !.Burst = IF c.Burst = 0 THEN DefaultConfig.Burst ELSE @,
        !.StatusCode = IF c.StatusCode = 0 THEN DefaultConfig.StatusCode ELSE @,
        !.Message = IF c.Message = "" THEN DefaultConfig.Message ELSE @,
        !.Algorithm = IF c.Algorithm = 0 THEN DefaultConfig.Algorithm ELSE @,
        !.Prefix = IF c.Prefix = <<>> THEN DefaultConfig.Prefix ELSE @,
        !.Period = IF c.Period = 0 THEN DefaultConfig.Period ELSE @,
        !.Key = IF c.Key = Nil THEN DefaultConfig.Key ELSE @,
        !.Handler = IF c.Handler = Nil THEN "defaultHandler" ELSE @,
        !.ErrHandler = IF c.ErrHandler = Nil THEN "defaultErrHandler" ELSE @]

\* lines 161-166
NewLimit(c) ==
    [Period |-> c.Period, Algorithm |-> c.Algorithm, Rate |-> c.Max, Burst |-> c.Burst]

\* variant: no check of the store handle
NewWithConfigUnchecked(c) ==
    /\ phase = "init"
    /\ callerConfig' = c
    /\ phase' = "built"
    /\ config' = Resolve(c)
    /\ limit' = NewLimit(Resolve(c))
    /\ UNCHANGED <<DefaultConfig, reqs, probe, ip>>

\* NewWithConfig(c): panics without a store handle, else keeps the resolved
\* copy and the limit for the middleware it returns
NewWithConfig(c) ==
    /\ phase = "init"
    /\ callerConfig' = c
    /\ IF c.Rediser = Nil
       THEN /\ phase' = "panicked"
            /\ UNCHANGED <<config, limit>>
       ELSE /\ phase' = "built"
            /\ config' = Resolve(c)
            /\ limit' = NewLimit(Resolve(c))
    /\ UNCHANGED <<DefaultConfig, reqs, probe, ip>>

\* New(rediser)
New(rediser) == NewWithConfig([DefaultConfig EXCEPT !.Rediser = rediser])

(***************************************************************************)
(* the handler the middleware returns, per request slot i                  *)
(***************************************************************************)
\* variant: the handler reads the caller's Config and DefaultConfig afresh
InstanceConfigLive == Resolve(callerConfig)

\* the config variable the returned closures captured
InstanceConfig == config

\* the limit the returned closure captured
InstanceLimit == limit

\* the hosting server hands the handler a request and a fresh ResponseWriter
Arrive(i, RS) ==
    /\ phase = "built"
    /\ reqs[i].pc = "idle"
    /\ \E r \in RS : reqs' = [reqs EXCEPT ![i] = [IdleSlot EXCEPT !.pc = "skipper", !.r = r]]
    /\ UNCHANGED <<DefaultConfig, callerConfig, phase, config, limit, probe, ip>>

\* variant: the Skipper's answer is negated
CheckSkipperNegated(i) ==
    LET q == reqs[i]
        c == InstanceConfig
    IN
    /\ q.pc = "skipper"
    /\ reqs' = [reqs EXCEPT ![i] =
                  IF ~CallSkipper(c.Skipper, q.r)
                  THEN [q EXCEPT !.calls.Skipper = @ + 1, !.calls.next = @ + 1,
                                 !.w = next(q.w, q.r), !.pc = "done"]
                  ELSE [q EXCEPT !.calls.Skipper = @ + 1, !.pc = "allow"]]
    /\ UNCHANGED <<DefaultConfig, callerConfig, phase, config, limit, probe, ip>>

\* lines 170-174
CheckSkipper(i) ==
    LET q == reqs[i]
        c == InstanceConfig
    IN
    /\ q.pc = "skipper"
    /\ reqs' = [reqs EXCEPT ![i] =
                  IF CallSkipper(c.Skipper, q.r)
                  THEN [q EXCEPT !.calls.Skipper = @ + 1, !.calls.next = @ + 1,
                                 !.w = next(q.w, q.r), !.pc = "done"]
                  ELSE [q EXCEPT !.calls.Skipper = @ + 1, !.pc = "allow"]]
    /\ UNCHANGED <<DefaultConfig, callerConfig, phase, config, limit, probe, ip>>

\* the key handed to limiter.Allow (line 176)
AllowKey(c, r) == CallKey(c.Key, r)

\* line 176: the key is computed and the limiter asked; it answers with any
\* of the outcomes OS
CallAllow(i, OS) ==
    LET q == reqs[i]
        c == InstanceConfig
    IN
    /\ q.pc = "allow"
    /\ \E o \in OS :
         reqs' = [reqs EXCEPT ![i] =
                    [q EXCEPT !.calls.Key = @ + 1, !.calls.Allow = @ + 1,
                              !.allowKey = AllowKey(c, q.r),
                              !.allowLimit = InstanceLimit,
                              !.out = o, !.pc = "respond"]]
    /\ UNCHANGED <<DefaultConfig, callerConfig, phase, config, limit, probe, ip>>

\* variant: the instant and the duration are cut to whole seconds separately
UnixAfterTruncated(now, d) == (now \div TicksPerSecond) + (d \div TicksPerSecond)

\* time.Now().Add(d).Unix()
UnixAfter(now, d) == (now + d) \div TicksPerSecond

\* variant: the return after the ErrHandler is missing
OnErrorFallsThrough(c, q) ==
    IF c.SkipOnError
    THEN [q EXCEPT !.calls.next = @ + 1, !.w = next(q.w, q.r)]
    ELSE [q EXCEPT !.calls.ErrHandler = @ + 1, !.errArg = q.out.err,
                   !.calls.next = @ + 1,
                   !.w = next(CallErrHandler(c.ErrHandler, q.out.err, q.w, q.r), q.r)]

\* lines 177-187
OnError(c, q) ==
    IF c.SkipOnError
    THEN [q EXCEPT !.calls.next = @ + 1, !.w = next(q.w, q.r)]
    ELSE [q EXCEPT !.calls.ErrHandler = @ + 1, !.errArg = q.out.err,
                   !.w = CallErrHandler(c.ErrHandler, q.out.err, q.w, q.r)]

\* lines 190-199
OnReject(c, q, now) ==
    LET w1 == HeaderSet(q.w, "Retry-After", FormatInt(UnixAfter(now, q.out.result.RetryAfter)))
    IN  [q EXCEPT !.calls.Handler = @ + 1, !.w = CallHandler(c.Handler, c, w1, q.r)]

\* lines 201-206
OnAllow(c, q, now) ==
    LET w1 == HeaderSet(q.w, "X-RateLimit-Limit", FormatInt(c.Max))
        w2 == HeaderSet(w1, "X-RateLimit-Remaining", FormatInt(q.out.result.Remaining))
        w3 == HeaderSet(w2, "X-RateLimit-Reset",
                        FormatInt(UnixAfter(now, q.out.result.ResetAfter)))
    IN  [q EXCEPT !.calls.next = @ + 1, !.w = next(w3, q.r)]

\* lines 177-206: the handler acts on what Allow returned
Respond(i, NS) ==
    LET q == reqs[i]
        c == InstanceConfig
    IN
    /\ q.pc = "respond"
    /\ \E now \in NS :
         reqs' = [reqs EXCEPT ![i] =
                    [(IF q.out.err # Nil THEN OnError(c, q)
                      ELSE IF ~q.out.result.Allowed THEN OnReject(c, q, now)
                      ELSE OnAllow(c, q, now))
                     EXCEPT !.pc = "done", !.now = now]]
    /\ UNCHANGED <<DefaultConfig, callerConfig, phase, config, limit, probe, ip>>

(***************************************************************************)
(* specification: one middleware, one request                              *)
(***************************************************************************)
Init ==
    /\ DefaultConfig = DefaultConfigLiteral
    /\ callerConfig = ZeroConfig
    /\ phase = "init"
    /\ config = ZeroConfig
    /\ limit = ZeroLimit
    /\ reqs = [i \in 1..NReq |-> IdleSlot]
    /\ probe = NoRequest
    /\ ip = NoIP

Next ==
    \/ phase = "init" /\ \E c \in Configs : NewWithConfig(c)
    \/ phase = "init" /\ \E rediser \in {Nil, "client"} : New(rediser)
    \/ Arrive(1, Requests)
    \/ CheckSkipper(1)
    \/ CallAllow(1, Outcomes)
    \/ Respond(1, Nows)

Spec == Init /\ [][Next]_vars

(***************************************************************************)
(* specification: concurrent requests on one middleware, while the caller  *)
(* goes on writing to its own Config value and to DefaultConfig            *)
(***************************************************************************)
\* a caller's Config with every option set
CustomConfig ==
    [Skipper |-> "customSkipper", Rediser |-> "client", Max |-> 3, Burst |-> 5,
     StatusCode |-> 503, Message |-> "slow down", Algorithm |-> GCRAAlgorithm,
     Prefix |-> <<"a", "p", "i">>, SkipOnError |-> TRUE, Period |-> 10 * Second,
     Key |-> "customKey", Handler |-> "customHandler",
     ErrHandler |-> "customErrHandler"]

ConcurrentConfigs ==
    {ExampleConfig, CustomConfig, [CustomConfig EXCEPT !.Skipper = Nil, !.SkipOnError = FALSE]}

ConcurrentRequests ==
    { Req(Fwd1, <<>>, Addr1, "/", <<"k", "1">>),
      Req(<<>>, <<>>, Addr1, "/health", <<"k", "2">>) }

ConcurrentOutcomes ==
    { [err |-> "redis: connection refused", result |-> NoResult],
      [err |-> Nil, result |-> [Allowed |-> FALSE, Remaining |-> 0, RetryAfter |-> 1,
                                ResetAfter |-> 1]],
      [err |-> Nil, result |-> [Allowed |-> TRUE, Remaining |-> 1, RetryAfter |-> 0,
                                ResetAfter |-> 1]] }

\* the caller assigns to fields of the package variable after construction
TouchDefaultConfig ==
    /\ phase = "built"
    /\ DefaultConfig = DefaultConfigLiteral
    /\ DefaultConfig' = [DefaultConfig EXCEPT !.Max = 1, !.Burst = 1, !.StatusCode = 418,
                                              !.Message = "teapot", !.Period = Second,
                                              !.Skipper = "customSkipper",
                                              !.Key = "customKey",
                                              !.Prefix = <<"x">>]
    /\ UNCHANGED <<callerConfig, phase, config, limit, reqs, probe, ip>>

\* the caller assigns to fields of the Config value it passed (by value)
TouchCallerConfig ==
    /\ phase = "built"
    /\ callerConfig.Max # 7
    /\ callerConfig' = [callerConfig EXCEPT !.Max = 7, !.Burst = 7, !.StatusCode = 404,
                                            !.Message = "gone", !.SkipOnError = ~@,
                                            !.Skipper = Nil, !.Key = Nil,
                                            !.Handler = Nil, !.ErrHandler = Nil]
    /\ UNCHANGED <<DefaultConfig, phase, config, limit, reqs, probe, ip>>

NextConcurrent ==
    \/ phase = "init" /\ \E c \in ConcurrentConfigs : NewWithConfig(c)
    \/ phase = "init" /\ New("client")
    \/ \E i \in 1..NReq :
         \/ Arrive(i, ConcurrentRequests)
         \/ CheckSkipper(i)
         \/ CallAllow(i, ConcurrentOutcomes)
         \/ Respond(i, {StartTick + 1})
    \/ TouchDefaultConfig
    \/ TouchCallerConfig

SpecConcurrent == Init /\ [][NextConcurrent]_vars

(***************************************************************************)
(* specification: GetIP on its own                                         *)
(***************************************************************************)
ForwardedForValues ==
    { <<>>,
      Fwd1,
      <<" ", "1", "0", ".", "0", ".", "0", ".", "2", " ", ",", "x">>,
      <<"2", "0", "0", "1", ":", "d", "b", "8", ":", ":", "1">>,
      <<",", "1", ".", "1", ".", "1", ".", "1">>,
      <<" ">>,
      <<"b", "o", "g", "u", "s">> }

RealIPValues ==
    { <<>>,
      Real1,
      <<" ", "1", "9", "8", ".", "5", "1", ".", "1", "0", "0", ".", "7", " ">>,
      <<" ">>,
      <<"b", "o", "g", "u", "s">> }

RemoteAddrValues ==
    { Addr1,
      <<"1", "9", "2", ".", "0", ".", "2", ".", "1">>,
      <<"[", "2", "0", "0", "1", ":", "d", "b", "8", ":", ":", "1", "]", ":", "8", "0">>,
      <<":", ":", "1">>,
      <<" ", "1", "9", "2", ".", "0", ".", "2", ".", "1", ":", "8", "0", " ">>,
      <<" ", "1", "9", "2", ".", "0", ".", "2", ".", "1">>,
      <<"h", "o", "s", "t", ":", "8", "0">>,
      <<"p", "i", "p", "e">>,
      <<>> }

InitGetIP ==
    /\ DefaultConfig = DefaultConfigLiteral
    /\ callerConfig = ZeroConfig
    /\ phase = "probe"
    /\ config = ZeroConfig
    /\ limit = ZeroLimit
    /\ reqs = [i \in 1..NReq |-> IdleSlot]
    /\ \E xff \in ForwardedForValues, xri \in RealIPValues, addr \in RemoteAddrValues :
         probe = Req(xff, xri, addr, "/", <<>>)
    /\ ip = NoIP

\* a caller calls GetIP(r)
CallGetIP ==
    /\ phase = "probe"
    /\ phase' = "probed"
    /\ ip' = GetIP(probe)
    /\ UNCHANGED <<DefaultConfig, callerConfig, config, limit, reqs, probe>>

SpecGetIP == InitGetIP /\ [][CallGetIP]_vars

(***************************************************************************)
(* properties                                                              *)
(***************************************************************************)
Slots == 1..NReq

\* the number a decimal header value denotes
RECURSIVE DecimalValue(_)
DecimalValue(s) ==
    IF s = <<>> THEN 0
    ELSE IF Head(s) = "-" THEN 0 - DecimalValue(Tail(s))
    ELSE DecimalValue(Take(s, Len(s) - 1)) * 10 + DigitVal(s[Len(s)])

\* the header map h carries name with the decimal number n
Carries(h, name, n) == name \in DOMAIN h /\ h[name] # <<>> /\ DecimalValue(h[name]) = n

RateLimitHeaders == {"Retry-After", "X-RateLimit-Limit", "X-RateLimit-Remaining", "X-RateLimit-Reset"}

\* whole seconds since the epoch at instant t, for t >= 0
UnixSeconds(t) == t \div TicksPerSecond

Handled(q) == q.calls.next + q.calls.Handler + q.calls.ErrHandler

\* the four outcome paths of a finished request
Skipped(q) == q.calls.Allow = 0 /\ q.calls.next = 1

Errored(q) ==
    /\ q.calls.Allow = 1 /\ q.out.err # Nil
    /\ q.calls.Handler = 0
    /\ q.calls.next + q.calls.ErrHandler = 1

Rejected(q) ==
    /\ q.calls.Allow = 1 /\ q.out.err = Nil /\ ~q.out.result.Allowed
    /\ q.calls.Handler = 1 /\ q.calls.next = 0 /\ q.calls.ErrHandler = 0

Allowed(q) ==
    /\ q.calls.Allow = 1 /\ q.out.err = Nil /\ q.out.result.Allowed
    /\ q.calls.next = 1 /\ q.calls.Handler = 0 /\ q.calls.ErrHandler = 0

\* C1: at no point of a request's handling has more than one of the inner
\* handler, the reject Handler and the ErrHandler been invoked, or Allow been
\* called twice; a finished request took exactly one of the four paths and
\* invoked exactly one of the three, once.
C1_OneOutcome ==
    \A i \in Slots :
        LET q == reqs[i] IN
        /\ Handled(q) <= 1
        /\ q.calls.Allow <= 1
        /\ q.pc = "done" =>
             /\ Handled(q) = 1
             /\ Cardinality({p \in {"skipped", "errored", "rejected", "allowed"} :
                               \/ p = "skipped" /\ Skipped(q)
                               \/ p = "errored" /\ Errored(q)
                               \/ p = "rejected" /\ Rejected(q)
                               \/ p = "allowed" /\ Allowed(q)}) = 1

C1_Witness ==
    \E i \in Slots : reqs[i].pc = "done" /\ Errored(reqs[i]) /\ reqs[i].calls.ErrHandler = 1

C3_Allow ==
    \A i \in Slots :
        LET q == reqs[i] IN
        (q.pc = "done" /\ q.calls.Allow = 1 /\ q.out.err = Nil /\ q.out.result.Allowed) =>
            /\ Carries(q.w.sent, "X-RateLimit-Limit", config.Max)
            /\ Carries(q.w.sent, "X-RateLimit-Remaining", q.out.result.Remaining)
            /\ Carries(q.w.sent, "X-RateLimit-Reset",
                       UnixSeconds(q.now + q.out.result.ResetAfter))
            /\ q.calls.next = 1
            /\ q.w.status = StatusOK
            /\ "Retry-After" \notin DOMAIN q.w.header

C3_Witness ==
    \E i \in Slots :
        LET q == reqs[i] IN
        /\ q.pc = "done" /\ Allowed(q)
        /\ q.out.result.Remaining > 0
        /\ UnixSeconds(q.now + q.out.result.ResetAfter) > UnixSeconds(q.now)

\* C4: once the Skipper has answered true for a request, the request is
\* finished with the inner handler invoked, no rate-limit header set, and
\* neither the Key function nor Allow called.
C4_Skip ==
    \A i \in Slots :
        LET q == reqs[i] IN
        (q.pc \notin {"idle", "skipper"} /\ CallSkipper(config.Skipper, q.r)) =>
            /\ q.pc = "done"
            /\ q.calls.next = 1
            /\ DOMAIN q.w.header \cap RateLimitHeaders = {}
            /\ DOMAIN q.w.sent \cap RateLimitHeaders = {}
            /\ q.calls.Key = 0
            /\ q.calls.Allow = 0
            /\ q.calls.Handler = 0 /\ q.calls.ErrHandler = 0

C4_Witness ==
    \E i \in Slots : reqs[i].pc = "done" /\ Skipped(reqs[i]) /\ reqs[i].calls.Skipper = 1

C6_PrefixedKey ==
    \A i \in Slots :
        LET q == reqs[i] IN
        q.calls.Allow = 1 =>
            /\ q.allowKey = config.Prefix \o CallKey(config.Key, q.r)
            /\ q.allowLimit = [Period |-> config.Period, Algorithm |-> config.Algorithm,
                               Rate |-> config.Max, Burst |-> config.Burst]

\* C7: after NewWithConfig has resolved a Config with a store handle, each
\* option the caller left zero holds its default, each option the caller set
\* holds the caller's value, and a request is only ever handled with every
\* one of Max, Burst, StatusCode, Message, Prefix, Period, Key, Skipper,
\* Handler and ErrHandler non-zero.
C7_Defaults ==
    LET a == callerConfig
        c == config
        Resolved(given, zero, got, default) ==
            IF given = zero THEN got = default ELSE got = given
    IN
    /\ phase = "built" =>
         /\ Resolved(a.Max, 0, c.Max, 10)
         /\ Resolved(a.Burst, 0, c.Burst, 10)
         /\ Resolved(a.StatusCode, 0, c.StatusCode, 429)
         /\ Resolved(a.Message, "", c.Message, "Too many requests, please try again later.")
         /\ Resolved(a.Algorithm, 0, c.Algorithm, SlidingWindowAlgorithm)
         /\ Resolved(a.Prefix, <<>>, c.Prefix, DefaultKeyPrefix)
         /\ Resolved(a.Period, 0, c.Period, 60 * TicksPerSecond)
         /\ Resolved(a.Key, Nil, c.Key, "DefaultKey")
         /\ Resolved(a.Skipper, Nil, c.Skipper, "DefaultSkipper")
         /\ Resolved(a.Handler, Nil, c.Handler, "defaultHandler")
         /\ Resolved(a.ErrHandler, Nil, c.ErrHandler, "defaultErrHandler")
         /\ c.Rediser = a.Rediser /\ c.SkipOnError = a.SkipOnError
         /\ ~DefaultSkipper(NoRequest)
    /\ (\E i \in Slots : reqs[i].pc # "idle") =>
         /\ phase = "built"
         /\ c.Max # 0 /\ c.Burst # 0 /\ c.StatusCode # 0 /\ c.Message # ""
         /\ c.Prefix # <<>> /\ c.Period # 0 /\ c.Key # Nil /\ c.Skipper # Nil
         /\ c.Handler # Nil /\ c.ErrHandler # Nil

C7_Witness ==
    /\ phase = "built"
    /\ callerConfig.Max = 0 /\ callerConfig.Message = "" /\ callerConfig.Burst = 5
    /\ config.Max = 10 /\ config.Burst = 5
    /\ \E i \in Slots : reqs[i].pc = "done"

\* C8: once a constructor has been called without a store handle, it has
\* panicked: there is no resolved configuration and no limit, no request is
\* ever taken up, and so no handler, callback or limiter call happens.
C8_NilStore ==
    (phase # "init" /\ phase # "probe" /\ callerConfig.Rediser = Nil) =>
        /\ phase = "panicked"
        /\ config = ZeroConfig
        /\ limit = ZeroLimit
        /\ \A i \in Slots : reqs[i] = IdleSlot

C8_Witness == phase = "panicked" /\ callerConfig.Key = "DefaultKey"

\* the three worked examples of GetIP
GetIPExamples ==
    /\ (HeaderGet(probe, "X-Forwarded-For") = Fwd1) => ip = IPv4(<<203, 0, 113, 5>>)
    /\ (HeaderGet(probe, "X-Forwarded-For") = <<>> /\ HeaderGet(probe, "X-Real-IP") = Real1)
           => ip = IPv4(<<198, 51, 100, 7>>)
    /\ (DOMAIN probe.Header = {} /\ probe.RemoteAddr = Addr1) => ip = IPv4(<<192, 0, 2, 1>>)

\* C9 as stated: GetIP takes X-Forwarded-For when non-empty (the trimmed
\* segment before the first comma), else X-Real-IP when non-empty after
\* trimming, else the remote address as it is, with the port stripped when
\* that succeeds; it parses that one source and no other.
C9_GetIPRawRemoteAddr ==
    phase = "probed" =>
        /\ ip = LET xff == HeaderGet(probe, "X-Forwarded-For")
                    xri == TrimSpace(HeaderGet(probe, "X-Real-IP"))
                    hp == SplitHostPort(probe.RemoteAddr)
                IN  IF xff # <<>> THEN ParseIP(TrimSpace(SplitFirst(xff, ",")))
                    ELSE IF xri # <<>> THEN ParseIP(xri)
                    ELSE IF hp.err THEN ParseIP(probe.RemoteAddr) ELSE ParseIP(hp.host)
        /\ GetIPExamples

\* C9 amended: as stated, except that the remote address is whitespace-trimmed
\* before the port is stripped and before it is parsed.
C9_GetIP ==
    phase = "probed" =>
        /\ ip = LET xff == HeaderGet(probe, "X-Forwarded-For")
                    xri == TrimSpace(HeaderGet(probe, "X-Real-IP"))
                    hp == SplitHostPort(TrimSpace(probe.RemoteAddr))
                IN  IF xff # <<>> THEN ParseIP(TrimSpace(SplitFirst(xff, ",")))
                    ELSE IF xri # <<>> THEN ParseIP(xri)
                    ELSE IF hp.err THEN ParseIP(TrimSpace(probe.RemoteAddr))
                    ELSE ParseIP(hp.host)
        /\ GetIPExamples

C9_Witness ==
    /\ phase = "probed"
    /\ HeaderGet(probe, "X-Forwarded-For") = <<>>
    /\ HeaderGet(probe, "X-Real-IP") = <<" ">>
    /\ probe.RemoteAddr = <<" ", "1", "9", "2", ".", "0", ".", "2", ".", "1", ":", "8", "0", " ">>
    /\ ip = IPv4(<<192, 0, 2, 1>>)

\* the response a request gets when it is the only one the middleware with
\* configuration c ever handles
SoloResponse(c, r, o, now) ==
    IF CallSkipper(c.Skipper, r) THEN next(NewResponse, r)
    ELSE IF o.err # Nil
    THEN IF c.SkipOnError THEN next(NewResponse, r)
         ELSE CallErrHandler(c.ErrHandler, o.err, NewResponse, r)
    ELSE IF ~o.result.Allowed
    THEN CallHandler(c.Handler, c,
                     HeaderSet(NewResponse, "Retry-After",
                               FormatInt(UnixSeconds(now + o.result.RetryAfter))), r)
    ELSE next(HeaderSet(HeaderSet(HeaderSet(NewResponse,
                  "X-RateLimit-Limit", FormatInt(c.Max)),
                  "X-RateLimit-Remaining", FormatInt(o.result.Remaining)),
                  "X-RateLimit-Reset", FormatInt(UnixSeconds(now + o.result.ResetAfter))), r)

\* every finished request has the response it would have got alone, from the
\* configuration as resolved at construction
HandledAlone ==
    \A i \in Slots :
        LET q == reqs[i] IN
        /\ q.pc = "done" => q.w = SoloResponse(config, q.r, q.out, q.now)
        /\ q.calls.Allow = 1 => q.allowKey = CallKey(config.Key, q.r) /\ q.allowLimit = limit
        /\ q.pc # "done" => q.w = NewResponse

\* steps after construction leave the configuration and the limit as they are
ReadOnlyAfterNew == phase = "built" => config' = config /\ limit' = limit

\* C10: with requests interleaved in every order and the caller writing to its
\* Config value and to DefaultConfig after construction, the resolved
\* configuration and the limit never change once built, and each request's
\* response is the one it would have got alone.
C10_Isolation == [](HandledAlone) /\ [][ReadOnlyAfterNew]_vars

C10_Witness ==
    \E i, j \in Slots :
        /\ i # j
        /\ reqs[i].pc = "done" /\ Rejected(reqs[i])
        /\ reqs[j].pc = "respond" /\ reqs[j].out.result.Allowed
        /\ DefaultConfig # DefaultConfigLiteral
        /\ callerConfig.Max = 7
====
